---------------------------- MODULE Spec2Model ----------------------------
(***************************************************************************)
(* Model of the guideline scrapers: BaseScraper.run() with its two         *)
(* subclasses (scrapers.py) and the legacy function                        *)
(* run_richtlijnendatabase (main.py).                                      *)
(*                                                                         *)
(* The browser, the pages it loads and the filesystem are the environment: *)
(* every Playwright call either succeeds or raises, and what a page holds  *)
(* (hrefs, number of matching controls, href of the control) is drawn from *)
(* small sets.  Strings are sequences of character codes so that sorting,  *)
(* splitting on "/" and endswith(".pdf") are computed, not assumed.        *)
(***************************************************************************)
EXTENDS Integers, Sequences, FiniteSets, TLC

(* ------------------------------ bounds -------------------------------- *)
\* number of calls of run() / run_richtlijnendatabase() the caller makes
MaxRuns == 2
\* length of the raw href list the link locator returns
MaxHrefs == 3
\* largest number of elements the primary-action locator matches
MaxMatches == 2

(* --------------------------- character codes -------------------------- *)
Slash == 47
Dot == 46
ChA == 97
ChB == 98
ChD == 100
ChF == 102
ChH == 104
ChO == 111
ChP == 112
ChR == 114

\* Python's None for the session fields; browser ids are 1, 2, ...
None == 0

Variants == {"richtlijn", "kennis", "legacy"}

(* ------------------------- string helpers ----------------------------- *)
\* Python str.__lt__: code-point-wise lexicographic order
RECURSIVE StrLess(_, _)
StrLess(s, t) ==
    IF t = <<>> THEN FALSE
    ELSE IF s = <<>> THEN TRUE
    ELSE IF Head(s) # Head(t) THEN Head(s) < Head(t)
    ELSE StrLess(Tail(s), Tail(t))

\* Python str.split(sep): the segments between separators (always >= 1)
RECURSIVE SplitFrom(_, _, _)
SplitFrom(s, sep, cur) ==
    IF s = <<>> THEN <<cur>>
    ELSE IF Head(s) = sep THEN <<cur>> \o SplitFrom(Tail(s), sep, <<>>)
    ELSE SplitFrom(Tail(s), sep, Append(cur, Head(s)))

Split(s, sep) == SplitFrom(s, sep, <<>>)

\* Python str.endswith(suffix)
EndsWith(s, suffix) ==
    /\ Len(s) >= Len(suffix)
    /\ SubSeq(s, Len(s) - Len(suffix) + 1, Len(s)) = suffix

PdfSuffix == <<Dot, ChP, ChD, ChF>>

\* list(set(xs)): the distinct elements
ToSet(xs) == {xs[k] : k \in 1..Len(xs)}

\* sorted(S): ascending by StrLess
RECURSIVE Sorted(_)
Sorted(S) ==
    IF S = {} THEN <<>>
    ELSE LET m == CHOOSE x \in S : \A y \in S : x = y \/ StrLess(x, y)
         IN <<m>> \o Sorted(S \ {m})

\* the mutation: sorted(all_hrefs) without the set()
RECURSIVE InsertSorted(_, _)
InsertSorted(x, xs) ==
    IF xs = <<>> THEN <<x>>
    ELSE IF StrLess(Head(xs), x) THEN <<Head(xs)>> \o InsertSorted(x, Tail(xs))
    ELSE <<x>> \o xs

RECURSIVE SortList(_)
SortList(xs) == IF xs = <<>> THEN <<>> ELSE InsertSorted(Head(xs), SortList(Tail(xs)))

UniqueUrls_NoDedup(all) == SortList(all)

\* unique_urls = sorted(list(set(all_hrefs)))
UniqueUrls(all) == Sorted(ToSet(all))

(* --------------------------- URLs and slugs --------------------------- *)
\* element.href is absolute: origin + LINK_PREFIX + rest.  The origin is
\* abbreviated to one character; the prefix keeps its last path segment.
LinkPrefix(v) ==
    IF v = "kennis" THEN <<ChH, Slash, ChO, Slash>>     \* .../onderwerp/
    ELSE <<ChH, Slash, ChR, Slash>>                     \* .../richtlijn/

\* what follows the prefix in the hrefs a listing page may hold
Rests == { <<ChA>>, <<ChB>>, <<ChA, Slash>>, <<ChB, Slash, ChA>> }

PageHrefs(v) == { LinkPrefix(v) \o r : r \in Rests }

\* name = url.split("/")[-1]   (richtlijn, legacy)
\* name = url.split("/")[-2]   (kennis)
SlugIndex(v) == IF v = "kennis" THEN 2 ELSE 1

Slug(v, url) ==
    LET parts == Split(url, Slash)
    IN parts[Len(parts) - SlugIndex(v) + 1]

\* save_path = download_dir / f"{name}.pdf"
SavePath(v, url) == Slug(v, url) \o PdfSuffix

TargetPaths(v) == { SavePath(v, u) : u \in PageHrefs(v) }

(* ------------------------------ paths --------------------------------- *)
ROOT_DIR == <<"root">>
Cwd == <<"cwd">>
CustomDir == <<"data", "out">>

Parent(p) == SubSeq(p, 1, Len(p) - 1)

\* BaseScraper.download_dir / main.DOWNLOAD_DIR
DownloadDir(v, override) ==
    IF v = "legacy" THEN Cwd \o <<"downloads">>
    ELSE IF override = <<>> THEN ROOT_DIR \o <<"downloads", "name">>
    ELSE override

\* Path.mkdir(exist_ok=True) without parents=True: succeeds when the path is
\* a directory already or when its parent is one
MkdirOk(ds, p) == p \in ds \/ Parent(p) \in ds

MkdirResult(ds, p) == IF MkdirOk(ds, p) THEN ds \cup {p} ELSE ds

\* the mutation: the existence check always answers "absent"
Exists_Never(fs, path) == FALSE

\* save_path.exists()
Exists(fs, path) == path \in DOMAIN fs

\* the directory states a run may start in: any prefix of the chain of
\* ancestors of the download directory, next to the directories that always
\* exist (the repository root and the working directory)
DirStates(p) ==
    { {ROOT_DIR, Cwd} \cup {SubSeq(p, 1, k) : k \in 1..n} : n \in 0..Len(p) }

\* content of a file that was there before the first run
OldContent == <<>>

(* ------------------------------ state --------------------------------- *)
VARIABLES
    variant,        \* which flow this object runs
    override,       \* self._download_dir (<<>> is None)
    dirs,           \* directories that exist
    files,          \* files of the download directory: path -> content
    pc,             \* position in run() / scrape()
    invocation,     \* number of the current call of run()
    browser,        \* self.browser  (legacy: local browser)
    context,        \* self.context
    page,           \* self.page
    launched,       \* ids of the browsers chromium.launch() returned
    closeLog,       \* every browser.close(): [inv, browser]
    exc,            \* the exception in flight: the step that raised it
    outcome,        \* how the last call ended
    runEv,          \* what the current call did, in order
    all_hrefs,      \* raw list from evaluate_all (until the loop's first turn;
                    \* nothing reads it afterwards)
    unique_urls,    \* sorted(list(set(all_hrefs)))
    discovered,     \* the item loop was entered in this call
    i,              \* number of loop iterations entered
    url,            \* loop variable
    save_path,      \* target of the current item
    count,          \* download_locator.count() on the current page
    href,           \* download_locator.get_attribute("href")
    listening,      \* an expect_download block is open
    download,       \* download_info.value
    ev,             \* what the current item did, in order
    results,        \* how each finished item ended
    files0,         \* files when the current item began
    sleeps,         \* number of sleeps completed since the last navigation
                    \* to an item of this call
    sleeping,       \* duration (hundredths of a second) of the sleep in
                    \* progress, 0 when not sleeping
    navigated,      \* the item URLs this call has called page.goto on
    startFiles,     \* files when this call began
    rerun,          \* [urls: what the previous call discovered (kept until
                    \* this call has discovered), same: this call discovered
                    \* the same sequence]
    entry           \* position in the module body of main.py

session == <<browser, context, page, launched, closeLog>>
disk == <<dirs, files>>
loopv == <<all_hrefs, unique_urls, discovered, i, url, save_path, files0>>
itemv == <<count, href, listening, download, ev, results>>
hist == <<sleeps, sleeping, navigated, startFiles, rerun>>
vars == <<variant, override, pc, invocation, exc, outcome, runEv,
          session, disk, loopv, itemv, hist, entry>>

IsClass == variant \in {"richtlijn", "kennis"}

\* the optional href of the control: [present, value]
NoHref == [present |-> FALSE, value |-> <<>>]
HrefValues ==
    { NoHref,
      [present |-> TRUE, value |-> <<>>],
      [present |-> TRUE, value |-> <<ChA>> \o PdfSuffix],
      [present |-> TRUE, value |-> <<ChA, ChP, ChD, ChF>>],
      [present |-> TRUE, value |-> <<ChA>>] }

\* the mutation: any href at all is taken for a PDF link
LeadsToPdf_AnyHref(h) == h.present

\* href and href.endswith(".pdf")
LeadsToPdf(h) == h.present /\ h.value # <<>> /\ EndsWith(h.value, PdfSuffix)

\* the raw lists evaluate_all may return
HrefLists(v) == UNION { [1..n -> PageHrefs(v)] : n \in 0..MaxHrefs }

Init ==
    /\ variant \in Variants
    /\ override \in (IF variant = "legacy" THEN {<<>>} ELSE {<<>>, CustomDir})
    /\ dirs \in DirStates(DownloadDir(variant, override))
    /\ files \in IF DownloadDir(variant, override) \in dirs
                THEN { [p \in S |-> OldContent] : S \in SUBSET TargetPaths(variant) }
                ELSE { [p \in {} |-> OldContent] }
    /\ pc = "ready"
    /\ invocation = 0
    /\ browser = None /\ context = None /\ page = None
    /\ launched = {}
    /\ closeLog = <<>>
    /\ exc = "none"
    /\ outcome = "none"
    /\ runEv = <<>>
    /\ all_hrefs = <<>> /\ unique_urls = <<>> /\ discovered = FALSE
    /\ i = 0 /\ url = <<>> /\ save_path = <<>>
    /\ count = 0 /\ href = NoHref /\ listening = FALSE /\ download = <<>>
    /\ ev = <<>> /\ results = <<>>
    /\ files0 = files
    /\ sleeps = 0 /\ sleeping = 0 /\ navigated = {} /\ startFiles = files
    /\ rerun = [urls |-> <<>>, same |-> FALSE, known |-> FALSE]
    /\ entry = "none"


(* --------------------------- control flow ----------------------------- *)
\* the positions inside the body of the item loop (legacy: inside its try)
ItemPcs == {"exists_check", "goto_item", "count", "click_primary",
            "wait_popup", "wait_generate", "get_href", "expect_download",
            "click_trigger", "await_download", "save", "sleep", "wake"}

\* the mutation: a readiness timeout is swallowed like the cookie banner's
HandlerPc_ReadySwallowed ==
    IF pc = "wait_ready" THEN "evaluate_all"
    ELSE IF IsClass THEN "except"
    ELSE IF pc \in ItemPcs THEN "item_except"
    ELSE "uncaught"

\* where an exception raised at the current position lands: the except
\* clause of run(); in the legacy function the per-item except clause, and
\* outside its loop nothing catches it
HandlerPc ==
    IF IsClass THEN "except"
    ELSE IF pc \in ItemPcs THEN "item_except"
    ELSE "uncaught"

Throw(step) ==
    /\ exc' = step
    /\ pc' = HandlerPc

\* entering run() / run_richtlijnendatabase(): the locals of the call
BeginCall ==
    /\ invocation' = invocation + 1
    /\ exc' = "none"
    /\ outcome' = "running"
    /\ runEv' = <<"start_log">>
    /\ all_hrefs' = <<>> /\ unique_urls' = <<>> /\ discovered' = FALSE
    /\ i' = 0 /\ url' = <<>> /\ save_path' = <<>>
    /\ count' = 0 /\ href' = NoHref /\ listening' = FALSE /\ download' = <<>>
    /\ ev' = <<>> /\ results' = <<>>
    /\ files0' = files
    /\ sleeps' = 0 /\ sleeping' = 0 /\ navigated' = {} /\ startFiles' = files
    /\ rerun' = [urls |-> unique_urls, same |-> FALSE, known |-> discovered]
    /\ IF IsClass
       THEN /\ pc' = "launch"
            /\ UNCHANGED <<browser, context, page>>
       ELSE /\ pc' = "mkdir"
            /\ browser' = None /\ context' = None /\ page' = None
    /\ UNCHANGED <<variant, override, launched, closeLog, disk>>

\* the caller calls run() (again)
RunStart ==
    /\ pc \in {"ready", "exited"}
    /\ entry = "none"
    /\ invocation < MaxRuns
    /\ BeginCall
    /\ UNCHANGED entry

\* browser = playwright.chromium.launch(headless=True)
Launch ==
    /\ pc = "launch"
    /\ \E ok \in BOOLEAN :
         IF ok
         THEN /\ browser' = invocation
              /\ launched' = launched \cup {invocation}
              /\ runEv' = Append(runEv, "launch")
              /\ pc' = "new_context"
              /\ UNCHANGED exc
         ELSE /\ Throw("launch")
              /\ UNCHANGED <<browser, launched, runEv>>
    /\ UNCHANGED <<entry, hist, variant, override, invocation, outcome, context, page,
                   closeLog, disk, loopv, itemv>>

\* context = browser.new_context(accept_downloads=True)
NewContext ==
    /\ pc = "new_context"
    /\ \E ok \in BOOLEAN :
         IF ok
         THEN /\ context' = browser
              /\ pc' = "new_page"
              /\ UNCHANGED exc
         ELSE /\ Throw("new_context")
              /\ UNCHANGED context
    /\ UNCHANGED <<entry, hist, variant, override, invocation, outcome, runEv, browser, page,
                   launched, closeLog, disk, loopv, itemv>>

\* page = context.new_page()
NewPage ==
    /\ pc = "new_page"
    /\ \E ok \in BOOLEAN :
         IF ok
         THEN /\ page' = context
              /\ pc' = IF IsClass THEN "mkdir" ELSE "goto_base"
              /\ UNCHANGED exc
         ELSE /\ Throw("new_page")
              /\ UNCHANGED page
    /\ UNCHANGED <<entry, hist, variant, override, invocation, outcome, runEv, browser,
                   context, launched, closeLog, disk, loopv, itemv>>

\* download_dir.mkdir(exist_ok=True)
Mkdir ==
    /\ pc = "mkdir"
    /\ LET p == DownloadDir(variant, override)
       IN /\ dirs' = MkdirResult(dirs, p)
          /\ runEv' = Append(runEv, "mkdir")
          /\ IF MkdirOk(dirs, p)
             THEN /\ pc' = IF IsClass THEN "goto_base" ELSE "launch"
                  /\ UNCHANGED exc
             ELSE Throw("mkdir")
    /\ UNCHANGED <<entry, hist, variant, override, invocation, outcome, session, files,
                   loopv, itemv>>

\* page.goto(base_URL)
GotoBase ==
    /\ pc = "goto_base"
    /\ runEv' = Append(runEv, "goto_base")
    /\ \E ok \in BOOLEAN :
         IF ok
         THEN /\ pc' = IF variant = "kennis" THEN "wait_ready" ELSE "cookie"
              /\ UNCHANGED exc
         ELSE Throw("goto_base")
    /\ UNCHANGED <<entry, hist, variant, override, invocation, outcome, session, disk,
                   loopv, itemv>>

\* the cookie banner: click it; a failure is caught and ignored
Cookie ==
    /\ pc = "cookie"
    /\ \E clicked \in BOOLEAN :
         pc' = IF variant = "richtlijn" THEN "wait_ready" ELSE "evaluate_all"
    /\ UNCHANGED <<entry, hist, variant, override, invocation, exc, outcome, runEv, session,
                   disk, loopv, itemv>>

\* page.wait_for_load_state('networkidle') / link_locators.last.wait_for()
WaitReady ==
    /\ pc = "wait_ready"
    /\ \E ok \in BOOLEAN :
         IF ok
         THEN /\ pc' = "evaluate_all"
              /\ UNCHANGED exc
         ELSE Throw("wait_ready")
    /\ UNCHANGED <<entry, hist, variant, override, invocation, outcome, runEv, session,
                   disk, loopv, itemv>>

\* all_hrefs = link_locators.evaluate_all(...); unique_urls = sorted(set)
EvaluateAll ==
    /\ pc = "evaluate_all"
    /\ \/ /\ \E hs \in HrefLists(variant) :
               \* the kennis wait returned, so at least one link is there
               /\ variant = "kennis" => hs # <<>>
               /\ all_hrefs' = hs
               /\ unique_urls' = UniqueUrls(hs)
               /\ rerun' = [urls |-> <<>>,
                            same |-> rerun.known /\ UniqueUrls(hs) = rerun.urls,
                            known |-> FALSE]
          /\ discovered' = TRUE
          /\ pc' = "loop"
          /\ UNCHANGED exc
       \/ /\ Throw("evaluate_all")
          /\ UNCHANGED <<all_hrefs, unique_urls, discovered, rerun>>
    /\ UNCHANGED <<entry, sleeps, sleeping, navigated, startFiles, variant, override,
                   invocation, outcome, runEv, session, disk, i, url,
                   save_path, files0, itemv>>

\* except Exception as e: print("Failed to run ..."); raise Exception(e)
Except ==
    /\ pc = "except"
    /\ runEv' = Append(runEv, "failed_log")
    /\ pc' = "finally"
    /\ UNCHANGED <<entry, hist, variant, override, invocation, exc, outcome, session, disk,
                   loopv, itemv>>

\* the mutation: the finally block without its close
ShouldClose_Never(b) == FALSE

\* if self.browser:
ShouldClose(b) == b # None

\* the mutation: the except clause without its raise
Reraised_Swallow(e) == FALSE

\* run() ends by raising when an exception is in flight
Reraised(e) == e # "none"

\* finally: if self.browser: self.browser.close(); print("Finished ...")
Finally ==
    /\ pc = "finally"
    /\ IF ShouldClose(browser)
       THEN /\ closeLog' = Append(closeLog, [inv |-> invocation, browser |-> browser])
            /\ runEv' = runEv \o <<"close", "finished_log">>
       ELSE /\ UNCHANGED closeLog
            /\ runEv' = Append(runEv, "finished_log")
    /\ outcome' = IF Reraised(exc) THEN "raised" ELSE "returned"
    /\ pc' = "exited"
    /\ UNCHANGED <<entry, hist, variant, override, invocation, exc, browser, context, page,
                   launched, disk, loopv, itemv>>

(* ----------------------------- item loop ------------------------------ *)
\* for i, url in enumerate(unique_urls): name = ...; save_path = ...
LoopNext ==
    /\ pc = "loop"
    /\ i < Len(unique_urls)
    /\ i' = i + 1
    /\ url' = unique_urls[i + 1]
    /\ save_path' = SavePath(variant, unique_urls[i + 1])
    /\ files0' = files
    /\ ev' = <<>>
    /\ count' = 0 /\ href' = NoHref /\ download' = <<>>
    /\ all_hrefs' = <<>>
    /\ pc' = "exists_check"
    /\ UNCHANGED <<entry, hist, variant, override, invocation, exc, outcome, runEv, session,
                   disk, unique_urls, discovered, listening, results>>

\* the loop is exhausted: scrape() returns / the legacy function cleans up
LoopEnd ==
    /\ pc = "loop"
    /\ i = Len(unique_urls)
    /\ pc' = IF IsClass THEN "finally" ELSE "context_close"
    /\ UNCHANGED <<entry, hist, variant, override, invocation, exc, outcome, runEv, session,
                   disk, loopv, itemv>>

\* if save_path.exists(): continue
ExistsCheck ==
    /\ pc = "exists_check"
    /\ IF Exists(files, save_path)
       THEN /\ results' = Append(results, "exists")
            /\ pc' = "loop"
       ELSE /\ pc' = "goto_item"
            /\ UNCHANGED results
    /\ UNCHANGED <<entry, hist, variant, override, invocation, exc, outcome, runEv, session,
                   disk, loopv, count, href, listening, download, ev>>

\* page.goto(url, timeout=10000); the page then shows some number of
\* primary-action controls
GotoItem ==
    /\ pc = "goto_item"
    /\ \/ /\ count' \in 0..MaxMatches
          /\ ev' = Append(ev, "goto")
          /\ pc' = "count"
          /\ UNCHANGED exc
       \/ /\ Throw("goto_item")
          /\ ev' = Append(ev, "goto_failed")
          /\ UNCHANGED count
    /\ navigated' = navigated \cup {url}
    /\ sleeps' = 0
    /\ UNCHANGED <<entry, sleeping, startFiles, rerun, variant, override, invocation, outcome,
                   runEv, session, disk, loopv, href, listening, download,
                   results>>

\* the mutation: the zero-match test never answers "none"
ZeroMatch_Never(n) == FALSE

\* download_locator.count() == 0
ZeroMatch(n) == n = 0

\* download_locator.count() > 1
Ambiguous(n) == n > 1

\* if count() == 0: continue;  if count() > 1: raise
Count ==
    /\ pc = "count"
    /\ IF ZeroMatch(count)
       THEN /\ results' = Append(results, "no_button")
            /\ pc' = "loop"
            /\ UNCHANGED exc
       ELSE IF Ambiguous(count)
       THEN /\ Throw("ambiguous")
            /\ UNCHANGED results
       ELSE /\ pc' = IF variant = "kennis" THEN "get_href" ELSE "click_primary"
            /\ UNCHANGED <<exc, results>>
    /\ UNCHANGED <<entry, hist, variant, override, invocation, outcome, runEv, session,
                   disk, loopv, count, href, listening, download, ev>>

\* download_locator.click()   (richtlijn, legacy)
ClickPrimary ==
    /\ pc = "click_primary"
    /\ ev' = Append(ev, "click_primary")
    /\ \E ok \in BOOLEAN :
         IF ok THEN pc' = "wait_popup" /\ UNCHANGED exc
         ELSE Throw("click_primary")
    /\ UNCHANGED <<entry, hist, variant, override, invocation, outcome, runEv, session,
                   disk, loopv, count, href, listening, download, results>>

\* the mutation: the wait for the popup text is not awaited at all
WaitPopup_Ignored ==
    /\ pc = "wait_popup"
    /\ pc' = "wait_generate"
    /\ UNCHANGED <<entry, hist, variant, override, invocation, exc, outcome,
                   runEv, session, disk, loopv, itemv>>

\* popup_text.wait_for(state="visible", timeout=10000)
WaitPopup ==
    /\ pc = "wait_popup"
    /\ \E ok \in BOOLEAN :
         IF ok
         THEN /\ ev' = Append(ev, "popup_visible")
              /\ pc' = "wait_generate"
              /\ UNCHANGED exc
         ELSE /\ Throw("wait_popup")
              /\ UNCHANGED ev
    /\ UNCHANGED <<entry, hist, variant, override, invocation, outcome, runEv, session,
                   disk, loopv, count, href, listening, download, results>>

\* generate_button.wait_for(state="visible", timeout=10000)
WaitGenerate ==
    /\ pc = "wait_generate"
    /\ \E ok \in BOOLEAN :
         IF ok
         THEN /\ ev' = Append(ev, "generate_visible")
              /\ pc' = "expect_download"
              /\ UNCHANGED exc
         ELSE /\ Throw("wait_generate")
              /\ UNCHANGED ev
    /\ UNCHANGED <<entry, hist, variant, override, invocation, outcome, runEv, session,
                   disk, loopv, count, href, listening, download, results>>

\* href = download_locator.get_attribute("href"); if href and
\* href.endswith(".pdf"): ... else: print("... Skipping.")   (kennis)
GetHref ==
    /\ pc = "get_href"
    /\ \/ \E h \in HrefValues :
            /\ href' = h
            /\ IF LeadsToPdf(h)
               THEN pc' = "expect_download" /\ UNCHANGED results
               ELSE pc' = "sleep" /\ results' = Append(results, "not_pdf")
            /\ UNCHANGED exc
       \/ /\ Throw("get_href")
          /\ UNCHANGED <<href, results>>
    /\ UNCHANGED <<entry, hist, variant, override, invocation, outcome, runEv, session,
                   disk, loopv, count, listening, download, ev>>

\* the mutation: the block is entered without a listener being attached
ListenerAttached_Late == FALSE

\* with page.expect_download(...) as download_info:  attaches the listener
ListenerAttached == TRUE

ExpectDownload ==
    /\ pc = "expect_download"
    /\ listening' = ListenerAttached
    /\ ev' = IF ListenerAttached THEN Append(ev, "listen") ELSE ev
    /\ pc' = "click_trigger"
    /\ UNCHANGED <<entry, hist, variant, override, invocation, exc, outcome, runEv, session,
                   disk, loopv, count, href, download, results>>

\* generate_button.click() / download_locator.click() inside the block; an
\* exception leaves the block, which detaches the listener
ClickTrigger ==
    /\ pc = "click_trigger"
    /\ ev' = Append(ev, "click_trigger")
    /\ \E ok \in BOOLEAN :
         IF ok
         THEN /\ pc' = "await_download"
              /\ UNCHANGED <<exc, listening>>
         ELSE /\ Throw("click_trigger")
              /\ listening' = FALSE
    /\ UNCHANGED <<entry, hist, variant, override, invocation, outcome, runEv, session,
                   disk, loopv, count, href, download, results>>

\* leaving the block waits for the download the listener saw, or times out;
\* download = download_info.value
AwaitDownload ==
    /\ pc = "await_download"
    /\ listening' = FALSE
    /\ \/ /\ listening
          /\ download' = url
          /\ ev' = Append(ev, "captured")
          /\ pc' = "save"
          /\ UNCHANGED exc
       \/ /\ Throw("await_download")
          /\ UNCHANGED <<download, ev>>
    /\ UNCHANGED <<entry, hist, variant, override, invocation, outcome, runEv, session,
                   disk, loopv, count, href, results>>

\* download.save_as(save_path)
SaveAs ==
    /\ pc = "save"
    /\ \/ /\ files' = [p \in DOMAIN files \cup {save_path} |->
                         IF p = save_path THEN download ELSE files[p]]
          /\ ev' = Append(ev, "save")
          /\ results' = Append(results, "saved")
          /\ pc' = "sleep"
          /\ UNCHANGED exc
       \/ /\ Throw("save")
          /\ UNCHANGED <<files, ev, results>>
    /\ UNCHANGED <<entry, hist, variant, override, invocation, outcome, runEv, session,
                   dirs, loopv, count, href, listening, download>>

\* random.randint(25, 50): both ends included, in hundredths of a second
SleepMin == 25
SleepMax == 50

\* time.sleep(random.randint(25, 50) / 100): the duration is drawn and the
\* flow blocks for it
Sleep ==
    /\ pc = "sleep"
    /\ ev' = Append(ev, "sleep")
    /\ sleeping' \in SleepMin..SleepMax
    /\ pc' = "wake"
    /\ UNCHANGED <<entry, sleeps, navigated, startFiles, rerun, variant,
                   override, invocation, exc, outcome, runEv, session, disk,
                   loopv, count, href, listening, download, results>>

\* time.sleep returns; the loop body is done
Wake ==
    /\ pc = "wake"
    /\ sleeping' = 0
    /\ sleeps' = sleeps + 1
    /\ pc' = "loop"
    /\ UNCHANGED <<entry, navigated, startFiles, rerun, variant, override,
                   invocation, exc, outcome, runEv, session, disk, loopv,
                   itemv>>

(* ---------------------------- legacy only ----------------------------- *)
\* except Exception as e: print("Failed to process ..."); pass
ItemExcept ==
    /\ pc = "item_except"
    /\ results' = Append(results, "failed")
    /\ exc' = "none"
    /\ pc' = "loop"
    /\ UNCHANGED <<entry, hist, variant, override, invocation, outcome, runEv, session,
                   disk, loopv, count, href, listening, download, ev>>

\* an exception outside the loop leaves run_richtlijnendatabase at once
Uncaught ==
    /\ pc = "uncaught"
    /\ outcome' = "raised"
    /\ pc' = "exited"
    /\ UNCHANGED <<entry, hist, variant, override, invocation, exc, runEv, session, disk,
                   loopv, itemv>>

\* context.close()
ContextClose ==
    /\ pc = "context_close"
    /\ runEv' = Append(runEv, "context_close")
    /\ pc' = "browser_close"
    /\ UNCHANGED <<entry, hist, variant, override, invocation, exc, outcome, session, disk,
                   loopv, itemv>>

\* browser.close(); print("--- All done! ---")
BrowserClose ==
    /\ pc = "browser_close"
    /\ closeLog' = Append(closeLog, [inv |-> invocation, browser |-> browser])
    /\ runEv' = runEv \o <<"close", "finished_log">>
    /\ outcome' = "returned"
    /\ pc' = "exited"
    /\ UNCHANGED <<entry, hist, variant, override, invocation, exc, browser, context, page,
                   launched, disk, loopv, itemv>>

(* ------------------------ main.py module body ------------------------- *)
\* the names bound at module level when line 133 runs
ModuleNames == {"random", "sync_playwright", "Playwright", "Path", "time",
                "BASE_URL", "LINK_PREFIX", "DOWNLOAD_DIR",
                "run_richtlijnendatabase"}

\* the name line 133 calls
EntryCallee == "run"

\* with sync_playwright() as playwright:
MainOpen ==
    /\ variant = "legacy"
    /\ entry = "none" /\ pc = "ready" /\ invocation = 0
    /\ entry' = "engine_open"
    /\ UNCHANGED <<hist, variant, override, pc, invocation, exc, outcome,
                   runEv, session, disk, loopv, itemv>>

\* run(playwright): the name is looked up; an unbound name raises NameError
MainCall ==
    /\ entry = "engine_open"
    /\ IF EntryCallee \in ModuleNames
       THEN /\ BeginCall
            /\ entry' = "in_call"
       ELSE /\ entry' = "name_error"
            /\ UNCHANGED <<hist, variant, override, pc, invocation, exc,
                           outcome, runEv, session, disk, loopv, itemv>>

\* leaving the with block (normally or by the exception) stops the engine
MainClose ==
    /\ \/ entry = "name_error"
       \/ entry = "in_call" /\ pc = "exited"
    /\ entry' = "engine_closed"
    /\ UNCHANGED <<hist, variant, override, pc, invocation, exc, outcome,
                   runEv, session, disk, loopv, itemv>>

(* --------------------------- specification ---------------------------- *)
Next ==
    \/ RunStart \/ Launch \/ NewContext \/ NewPage \/ Mkdir \/ GotoBase
    \/ Cookie \/ WaitReady \/ EvaluateAll \/ Except \/ Finally
    \/ LoopNext \/ LoopEnd \/ ExistsCheck \/ GotoItem \/ Count
    \/ ClickPrimary \/ WaitPopup \/ WaitGenerate \/ GetHref
    \/ ExpectDownload \/ ClickTrigger \/ AwaitDownload \/ SaveAs \/ Sleep
    \/ Wake
    \/ ItemExcept \/ Uncaught \/ ContextClose \/ BrowserClose
    \/ MainOpen \/ MainCall \/ MainClose

Spec == Init /\ [][Next]_vars

(* ------------------------------ claims -------------------------------- *)
Has(s, e) == \E k \in DOMAIN s : s[k] = e

\* every occurrence of e2 in s has an e1 somewhere before it
Precedes(s, e1, e2) ==
    \A k \in DOMAIN s : s[k] = e2 => \E j \in 1..(k - 1) : s[j] = e1

\* the browser.close() calls the current call of run() made on the browser
\* it launched itself
OwnCloses ==
    { k \in DOMAIN closeLog :
        closeLog[k].inv = invocation /\ closeLog[k].browser = invocation }

\* the steps of the per-item flow that can raise
ItemSteps == {"goto_item", "ambiguous", "click_primary", "wait_popup",
              "wait_generate", "get_href", "click_trigger", "await_download",
              "save"}

\* the setup steps of run() and the steps of scrape() before the loop
SetupSteps == {"launch", "new_context", "new_page", "mkdir", "goto_base"}
DiscoverySteps == {"wait_ready", "evaluate_all"}

\* C1: BaseScraper.run(): once this call has launched a browser, it closes
\* that browser exactly once before it returns or raises, whatever step
\* failed; and it never closes it more than once.
C1_BrowserClosedOnEveryExit ==
    IsClass =>
        /\ Cardinality(OwnCloses) <= 1
        /\ (pc = "exited" /\ invocation \in launched)
              => /\ Cardinality(OwnCloses) = 1
                 /\ Has(runEv, "close")

\* C1 witness: context creation raised after a successful launch, and run()
\* has ended by raising
C1_Witness ==
    /\ IsClass /\ pc = "exited" /\ outcome = "raised"
    /\ exc = "new_context" /\ invocation \in launched
    /\ Cardinality(OwnCloses) = 1

\* C2: failure isolation: when a call that reached the item loop has ended,
\* every discovered URL was attempted and no per-item exception ended it.
C2_FailureIsolation ==
    (pc = "exited" /\ discovered)
        => /\ i = Len(unique_urls)
           /\ exc \notin ItemSteps

\* C3: ambiguity: an item whose page shows two or more primary controls is
\* neither clicked nor downloaded, and the exception it raises does not
\* leave the item loop.
C3_AmbiguityStaysInBatch ==
    /\ (exc = "ambiguous") => pc \notin {"except", "finally", "uncaught"}
    /\ (pc = "exited" /\ exc = "ambiguous") => outcome # "raised"
    /\ (i >= 1 /\ Has(ev, "goto") /\ count > 1 /\ pc # "count")
          => ~Has(ev, "click_primary") /\ ~Has(ev, "click_trigger")
             /\ files = files0

C5_IdempotentSkip ==
    (i >= 1 /\ pc # "exists_check" /\ save_path \in DOMAIN files0)
        => /\ ev = <<>>
           /\ files = files0
           /\ exc = "none"
           /\ Len(results) = i /\ results[i] = "exists"
           /\ pc \notin ItemPcs

\* C5 witness: a present target was skipped and another URL follows
C5_Witness ==
    /\ pc = "loop" /\ i >= 1 /\ i < Len(unique_urls)
    /\ save_path \in DOMAIN files0
    /\ results[i] = "exists"

\* C6: zero matches: once the count of an item whose page shows no primary
\* control has been taken, the item has done nothing but navigate: no
\* click, no listener, no write, no exception; it is recorded as skipped.
C6_ZeroMatchSkip ==
    (i >= 1 /\ Has(ev, "goto") /\ count = 0 /\ pc # "count")
        => /\ ev = <<"goto">>
           /\ ~listening
           /\ files = files0
           /\ exc = "none"
           /\ Len(results) = i /\ results[i] = "no_button"
           /\ pc \notin ItemPcs \cup {"except", "item_except", "uncaught"}

\* C6 witness: an item with no control was skipped and another URL follows
C6_Witness ==
    /\ pc = "loop" /\ i >= 1 /\ i < Len(unique_urls)
    /\ ev = <<"goto">> /\ count = 0
    /\ results[i] = "no_button"

\* C7: discovery ordering: the iterated sequence is strictly ascending (so
\* sorted and without repetition), holds exactly the URLs of the raw list,
\* and is the sequence the duplicate-free ascending list of the same URLs
\* gives (so any two raw lists with the same set give the same sequence).
C7_DiscoveryOrdering ==
    /\ \A k \in 1..(Len(unique_urls) - 1) :
          StrLess(unique_urls[k], unique_urls[k + 1])
    /\ (pc = "loop" /\ i = 0) =>
          /\ ToSet(unique_urls) = ToSet(all_hrefs)
          /\ UniqueUrls(Sorted(ToSet(all_hrefs))) = unique_urls

\* C7 witness: a raw list out of order and with a repeated href
C7_Witness ==
    /\ pc = "loop" /\ i = 0
    /\ Len(all_hrefs) = 3 /\ Len(unique_urls) = 2
    /\ StrLess(all_hrefs[2], all_hrefs[1])
    /\ all_hrefs[3] = all_hrefs[2]

\* C8: listener before click: the triggering click happens only after the
\* listener of this item was attached and while it is active, and a file
\* is saved only from the transfer that listener captured after the click.
C8_ListenerBeforeClick ==
    /\ Precedes(ev, "listen", "click_trigger")
    /\ pc \in {"click_trigger", "await_download"} => listening
    /\ Precedes(ev, "click_trigger", "captured")
    /\ Precedes(ev, "captured", "save")
    /\ (i >= 1 /\ Has(ev, "save")) =>
          /\ download = url
          /\ save_path \in DOMAIN files /\ files[save_path] = url

\* C8 witness: an item was clicked and saved
C8_Witness ==
    /\ i >= 1 /\ Has(ev, "click_trigger") /\ Has(ev, "save")
    /\ files[save_path] = url

\* C9: session scoping: every close is issued by the call that launched the
\* browser, every launched browser is closed exactly once by the time its
\* call has ended, and the page in use belongs to the current call.
C9_SessionScoped ==
    IsClass =>
        /\ \A k \in DOMAIN closeLog : closeLog[k].browser = closeLog[k].inv
        /\ \A b \in launched :
              LET n == Cardinality({k \in DOMAIN closeLog : closeLog[k].browser = b})
              IN /\ n <= 1
                 /\ (b < invocation \/ pc = "exited") => n = 1
        /\ pc \in ItemPcs \cup {"goto_base", "cookie", "wait_ready", "evaluate_all"}
              => page = invocation /\ context = invocation /\ browser = invocation

\* C10: download directory before items: once mkdir has run the directory
\* exists, mkdir never raises, and nothing is navigated to without it.
C10_DirBeforeItems ==
    IsClass =>
        /\ Has(runEv, "mkdir") => DownloadDir(variant, override) \in dirs
        /\ exc # "mkdir"
        /\ Has(runEv, "goto_base") => DownloadDir(variant, override) \in dirs

\* the number of times e occurs in s
Occurrences(s, e) == Cardinality({k \in DOMAIN s : s[k] = e})

\* C11: discovery timeout is fatal: when the readiness wait of scrape()
\* timed out, the call discovers nothing, navigates to no item, writes no
\* file, loads the listing page only once, and ends by raising after the
\* browser was closed.
C11_DiscoveryTimeoutFatal ==
    (IsClass /\ exc = "wait_ready") =>
        /\ ~discovered /\ i = 0 /\ unique_urls = <<>>
        /\ navigated = {}
        /\ files = startFiles
        /\ Occurrences(runEv, "goto_base") = 1
        /\ pc \in {"except", "finally", "exited"}
        /\ pc = "exited" =>
              /\ outcome = "raised"
              /\ Cardinality(OwnCloses) = 1
              /\ Has(runEv, "close")

\* C11 witness: the kennis wait for the last link timed out and run() ended
C11_Witness ==
    /\ variant = "kennis" /\ exc = "wait_ready" /\ pc = "exited"
    /\ outcome = "raised" /\ Has(runEv, "close")

\* C12: politeness delay: whenever the flow is about to navigate to an item
\* after an earlier item navigation of the same call, it has slept exactly
\* once in between, for 25..50 hundredths of a second.
C12_DelayBetweenNavigations ==
    /\ (pc = "goto_item" /\ navigated # {}) => sleeps = 1
    /\ pc = "wake" => sleeping \in 25..50

\* the href is present and ends with ".pdf"
HrefIsPdf(h) == h.present /\ EndsWith(h.value, PdfSuffix)

\* C13: kennis href gating: a listener is opened, the control clicked and a
\* file saved only for an item with one control whose href is present and
\* ends with ".pdf"; once any other href has been read the item has done
\* none of these, raised nothing, and is recorded as skipped.
C13_HrefGating ==
    variant = "kennis" =>
        /\ (Has(ev, "listen") \/ Has(ev, "click_trigger") \/ Has(ev, "save"))
              => count = 1 /\ HrefIsPdf(href)
        /\ (/\ i >= 1 /\ Has(ev, "goto") /\ count = 1
            /\ pc \notin {"count", "get_href"} /\ exc # "get_href"
            /\ ~HrefIsPdf(href))
              => /\ ~Has(ev, "listen") /\ ~Has(ev, "click_trigger")
                 /\ ~Has(ev, "save") /\ ~listening
                 /\ files = files0
                 /\ exc = "none"
                 /\ Len(results) = i /\ results[i] = "not_pdf"
                 /\ pc \in {"sleep", "wake", "loop", "finally", "exited"}

\* C13 witness: a control whose href is present but no PDF link was skipped
\* and another URL follows
C13_Witness ==
    /\ variant = "kennis" /\ pc = "loop" /\ i >= 1 /\ i < Len(unique_urls)
    /\ count = 1 /\ href.present /\ href.value # <<>> /\ ~HrefIsPdf(href)
    /\ results[i] = "not_pdf"

\* C14: richtlijn confirmation sequence: a saved item went through click,
\* popup text visible, button visible, listener, GENEREER click, capture and
\* save in this order and its file is at the precomputed path; without both
\* waits having succeeded GENEREER is not clicked and nothing is written.
C14_ConfirmationSequence ==
    variant \in {"richtlijn", "legacy"} =>
        /\ Has(ev, "save") =>
              /\ ev \in { <<"goto", "click_primary", "popup_visible",
                            "generate_visible", "listen", "click_trigger",
                            "captured", "save">> \o tl : tl \in {<<>>, <<"sleep">>} }
              /\ save_path = SavePath(variant, url)
              /\ save_path \in DOMAIN files /\ files[save_path] = url
        /\ Precedes(ev, "click_primary", "popup_visible")
        /\ Precedes(ev, "popup_visible", "generate_visible")
        /\ Precedes(ev, "generate_visible", "click_trigger")
        /\ exc \in {"wait_popup", "wait_generate"}
              => ~Has(ev, "click_trigger") /\ files = files0
        /\ (i >= 1 /\ files # files0) => Has(ev, "save")

\* C14 witness: the popup text came but the GENEREER button timed out
C14_Witness ==
    /\ variant = "richtlijn" /\ exc = "wait_generate" /\ pc = "exited"
    /\ Has(ev, "popup_visible") /\ ~Has(ev, "click_trigger")

\* C15: slug uniqueness: distinct discovered URLs have distinct target paths.
C15_SlugsDistinct ==
    \A j, k \in DOMAIN unique_urls :
        j # k => SavePath(variant, unique_urls[j]) # SavePath(variant, unique_urls[k])

\* C16: legacy cleanup: when a call of run_richtlijnendatabase that launched
\* a browser has ended, it closed that browser, and the context if it
\* created one.
C16_LegacyCleanup ==
    (variant = "legacy" /\ pc = "exited" /\ invocation \in launched) =>
        /\ \E k \in DOMAIN closeLog : closeLog[k].browser = invocation
        /\ context # None => Has(runEv, "context_close")

\* C17: resume: an item that ended without a save leaves its absent target
\* absent; and a call that discovered the same URLs as the call before it
\* has, when it ends, navigated to exactly the URLs whose target was absent
\* when it began.
C17_ResumeAfterPartialCompletion ==
    IsClass =>
        /\ (i >= 1 /\ pc \notin ItemPcs /\ ~Has(ev, "save")
               /\ save_path \notin DOMAIN files0)
              => save_path \notin DOMAIN files
        /\ (pc = "exited" /\ discovered /\ rerun.same) =>
              \A u \in ToSet(unique_urls) :
                  (u \in navigated) <=> (SavePath(variant, u) \notin DOMAIN startFiles)

\* C18: no overwrite: a save goes to a path that was absent at the item's
\* existence check, no file present when the call or the item began is
\* changed, and a path is written at most once per call.
C18_NoOverwrite ==
    /\ Has(ev, "save") => save_path \notin DOMAIN files0
    /\ \A p \in DOMAIN startFiles :
          p \in DOMAIN files /\ files[p] = startFiles[p]
    /\ \A p \in DOMAIN files0 :
          p \in DOMAIN files /\ files[p] = files0[p]
    /\ Occurrences(results, "saved")
          = Cardinality(DOMAIN files \ DOMAIN startFiles)

\* C18 witness: a second URL with the slug of a URL saved earlier in the
\* same call was skipped and the earlier file is still there
C18_Witness ==
    /\ pc = "loop" /\ i >= 2 /\ results[i] = "exists"
    /\ save_path \notin DOMAIN startFiles
    /\ save_path \in DOMAIN files /\ files[save_path] # url
    /\ files[save_path] \in ToSet(unique_urls)

\* C19: entry point: when the engine lifetime opened by main.py has ended,
\* the run routine was called inside it and has run to completion.
C19_EntryRunsScraper ==
    entry = "engine_closed" => (invocation >= 1 /\ pc = "exited")

=============================================================================
